---- MODULE Spec2Model ----
(***************************************************************************)
(* NovaNXT report scripts: Ha.py (per-row brand records, per-ZBM summary,  *)
(* master brand summary), He.py (highest brand per row), New.py (highest   *)
(* Rx per account and brand column) and sep-oct-nov.py (the same, per      *)
(* month).  Each script is a straight-line pipeline over one CSV table:    *)
(* resolve the hierarchy columns, detect the Brand/Rx column pairs,        *)
(* reshape or select, then summarise.                                      *)
(*                                                                         *)
(* Python str values are sequences of one-character strings, so that       *)
(* strip(), float(), str() and lexical ordering are computed, not assumed. *)
(* Column names are TLA+ strings (they are only tested for membership).    *)
(***************************************************************************)
EXTENDS Integers, Sequences, FiniteSets, TLC

VARIABLES script, cols, rows, pc, err, mapped, missing, pairs, table, summary, master

vars == <<script, cols, rows, pc, err, mapped, missing, pairs, table, summary, master>>

\* Largest number of rows of the input table.
MaxRows == 2

\* range(1, 11): slot indices 1..10 are probed.
NSlots == 10

(***************************************************************************)
(* Python values                                                           *)
(***************************************************************************)

\* A cell that read_csv(dtype=str) left empty: float nan.
NaN == <<"NaN">>

\* Python None stored in a result cell.
None == <<"None">>

\* find_col / find_column returning None (no column name).
NoneCol == ""

\* pd.notna(v)
notna(v) == v # NaN /\ v # None

\* The characters of the model's strings, in code point order.
Alphabet == <<" ", "-", "0", "1", "2", "3", "4", "5", "6", "7", "8", "9",
              "X", "Y", "Z", "a", "n", "x">>

ord(c) == CHOOSE i \in 1..Len(Alphabet) : Alphabet[i] = c

\* str < str of Python: lexical on code points, a proper prefix first.
RECURSIVE str_lt(_, _)
str_lt(s, t) ==
  IF t = <<>> THEN FALSE
  ELSE IF s = <<>> THEN TRUE
  ELSE IF Head(s) # Head(t) THEN ord(Head(s)) < ord(Head(t))
  ELSE str_lt(Tail(s), Tail(t))

\* Tuples of strings compare element by element (a group key).
RECURSIVE key_lt(_, _)
key_lt(k, l) ==
  IF l = <<>> THEN FALSE
  ELSE IF k = <<>> THEN TRUE
  ELSE IF Head(k) # Head(l) THEN str_lt(Head(k), Head(l))
  ELSE key_lt(Tail(k), Tail(l))

RECURSIVE lstrip(_)
lstrip(s) == IF s # <<>> /\ Head(s) = " " THEN lstrip(Tail(s)) ELSE s

RECURSIVE rstrip(_)
rstrip(s) ==
  IF s # <<>> /\ s[Len(s)] = " " THEN rstrip(SubSeq(s, 1, Len(s) - 1)) ELSE s

\* str.strip()
strip(s) == rstrip(lstrip(s))

\* str(v) of a cell: a str is itself, float nan prints as "nan".
str(v) == IF v = NaN THEN <<"n", "a", "n">> ELSE v

\* Series.astype(str).fillna("").str.strip(): astype(str) has already turned
\* nan into "nan", so fillna finds nothing to fill.
astype_str_strip(v) == strip(str(v))

IsDigit(c) == c \in {"0", "1", "2", "3", "4", "5", "6", "7", "8", "9"}

DigitVal(c) == ord(c) - ord("0")

RECURSIVE DecValue(_)
DecValue(s) ==
  IF s = <<>> THEN 0
  ELSE 10 * DecValue(SubSeq(s, 1, Len(s) - 1)) + DigitVal(s[Len(s)])

IsNumeral(s) == s # <<>> /\ \A i \in 1..Len(s) : IsDigit(s[i])

\* float(s) succeeds: optional surrounding blanks, optional sign, digits.
float_ok(s) ==
  LET t == strip(s)
  IN  IF t # <<>> /\ Head(t) = "-" THEN IsNumeral(Tail(t)) ELSE IsNumeral(t)

float_val(s) ==
  LET t == strip(s)
  IN  IF Head(t) = "-" THEN 0 - DecValue(Tail(t)) ELSE DecValue(t)

(***************************************************************************)
(* The input table                                                         *)
(***************************************************************************)

BrandCol == <<"Brand1: Brand Code", "Brand2: Brand Code", "Brand3: Brand Code",
              "Brand4: Brand Code", "Brand5: Brand Code", "Brand6: Brand Code",
              "Brand7: Brand Code", "Brand8: Brand Code", "Brand9: Brand Code",
              "Brand10: Brand Code", "Brand11: Brand Code">>

RxCol == <<"Rx/Month1", "Rx/Month2", "Rx/Month3", "Rx/Month4", "Rx/Month5",
           "Rx/Month6", "Rx/Month7", "Rx/Month8", "Rx/Month9", "Rx/Month10",
           "Rx/Month11">>

\* Columns every input table of the model has.
FixedCols == {"ZBM Name", "ABM Code", "ABM Name", "User: Full Name",
              "Account: Customer Code", "Date", BrandCol[11], RxCol[11]}

\* Columns an input table may or may not have.
VarCols == {"ZBM Code", "zbm_code", "ZBMCode",
            "Territory Code", "TBM Code", "tbm_code", "Division",
            BrandCol[1], RxCol[1], BrandCol[2], RxCol[2], BrandCol[3]}

\* The header of the tables whose rows vary.
DataCols == FixedCols \cup {"ZBM Code", "Territory Code", "Division",
                            BrandCol[1], RxCol[1], BrandCol[2], RxCol[2], BrandCol[3]}

ZoneCells == {<<"Z", "1">>, <<"Z", "2">>}

AcctCells == {<<"1", "0", "1">>, <<"1", "0", "2">>}

\* (brand cell, Rx cell) of one slot of one row.
Slot1Cells == { <<<<"X">>, <<"7">>>>, <<NaN, <<"7">>>>, <<<<" ">>, <<"0">>>>,
                <<<<"X">>, <<"x">>>> }

Slot2Cells == { <<<<"Y">>, <<"7">>>>, <<<<" ">>, <<"0">>>> }

RowSet == [zbm : ZoneCells, acct : AcctCells, s1 : Slot1Cells, s2 : Slot2Cells]

\* The two rows of a table whose header varies.
SampleRows ==
  << [zbm |-> <<"Z", "1">>, acct |-> <<"1", "0", "1">>,
      s1 |-> <<<<"X">>, <<"3">>>>, s2 |-> <<NaN, <<"0">>>>],
     [zbm |-> <<"Z", "1">>, acct |-> <<"1", "0", "1">>,
      s1 |-> <<<<"Y">>, <<"7">>>>, s2 |-> <<<<"X">>, <<"2">>>>] >>

\* df.at[idx, col]: the cell of row r in column c.
Cell(r, c) ==
  CASE c \in {"ZBM Code", "zbm_code", "ZBMCode", "Division"} -> r.zbm
    [] c \in {"Account: Customer Code"} -> r.acct
    [] c = BrandCol[1] -> r.s1[1]
    [] c = RxCol[1] -> r.s1[2]
    [] c = BrandCol[2] -> r.s2[1]
    [] c = RxCol[2] -> r.s2[2]
    [] c = "ZBM Name" -> <<"Z", "n">>
    [] c = "ABM Code" -> <<"a", "1">>
    [] c = "ABM Name" -> <<"a", "n">>
    [] c \in {"Territory Code", "TBM Code", "tbm_code"} -> <<"a", "1", "x">>
    [] c = "User: Full Name" -> <<"n", "a", "n", "a">>
    [] OTHER -> NaN

Scripts == {"Ha", "He", "New", "Sep"}

(***************************************************************************)
(* Schema resolution                                                       *)
(***************************************************************************)

\* column_map of each script: (logical field, accepted names) in dict order.
column_map(s) ==
  CASE s = "Ha" ->
         << <<"ZBM Code", <<"ZBM Code", "zbm_code">>>>,
            <<"ZBM Name", <<"ZBM Name", "zbm_name">>>>,
            <<"ABM Code", <<"ABM Code", "abm_code">>>>,
            <<"ABM Name", <<"ABM Name", "abm_name">>>>,
            <<"Territory Code", <<"Territory Code", "tbm_code">>>>,
            <<"User: Full Name", <<"User: Full Name", "tbm_name">>>>,
            <<"Account: Customer Code",
              <<"Account: Customer Code", "Dr Code", "doctor_code">>>> >>
    [] s \in {"He", "New"} ->
         << <<"ZBM Code", <<"ZBM Code", "zbm_code", "ZBMCode">>>>,
            <<"ZBM Name", <<"ZBM Name", "zbm_name", "ZBMName">>>>,
            <<"ABM Code", <<"ABM Code", "abm_code", "ABMCode">>>>,
            <<"ABM Name", <<"ABM Name", "abm_name", "ABMName">>>>,
            <<"Territory Code",
              <<"Territory Code", "territory_code", "TBM Code", "tbm_code">>>>,
            <<"User: Full Name",
              <<"User: Full Name", "user_full_name", "TBM Name", "tbm_name">>>>,
            <<"Account: Customer Code",
              <<"Account: Customer Code", "Dr Code", "doctor_code">>>> >>
    [] s = "Sep" ->
         << <<"Date", <<"Date", "date">>>>,
            <<"Division", <<"Division">>>>,
            <<"Territory Code", <<"Territory Code">>>>,
            <<"User: Full Name", <<"User: Full Name">>>>,
            <<"Account: Customer Code", <<"Account: Customer Code">>>> >>

Fields(s) == {column_map(s)[i][1] : i \in 1..Len(column_map(s))}

Options(s, f) ==
  LET i == CHOOSE j \in 1..Len(column_map(s)) : column_map(s)[j][1] = f
  IN  column_map(s)[i][2]

\* The loop of find_col / find_column from position i of the list.
RECURSIVE find_from(_, _, _)
find_from(opts, columns, i) ==
  IF i > Len(opts) THEN NoneCol
  ELSE IF opts[i] \in columns THEN opts[i]
  ELSE find_from(opts, columns, i + 1)

\* A resolver that lets a later name of the list override an earlier one.
find_col_last(opts, columns) ==
  IF \E i \in 1..Len(opts) : opts[i] \in columns
  THEN opts[CHOOSE i \in 1..Len(opts) :
              opts[i] \in columns /\ \A j \in i + 1..Len(opts) : opts[j] \notin columns]
  ELSE NoneCol

\* find_col(opts) / find_column(possible_names) over df.columns.
find_col(opts, columns) == find_from(opts, columns, 1)

\* The logical fields, in dict order, that find no column.
RECURSIVE missing_from(_, _, _)
missing_from(cm, columns, i) ==
  IF i > Len(cm) THEN <<>>
  ELSE IF find_col(cm[i][2], columns) = NoneCol
       THEN <<cm[i][1]>> \o missing_from(cm, columns, i + 1)
       ELSE missing_from(cm, columns, i + 1)

\* mapped / mapped_cols: logical field -> resolved column.
mapped_of(s, columns) ==
  [f \in {g \in Fields(s) : find_col(Options(s, g), columns) # NoneCol}
     |-> find_col(Options(s, f), columns)]

(***************************************************************************)
(* Initial states                                                          *)
(***************************************************************************)

RowLists == UNION {[1..n -> RowSet] : n \in 1..MaxRows}

\* Rows of one account that hold a brand with the metric 0 in some slot.
ZeroRowSet ==
  {r \in [zbm : {<<"Z", "1">>}, acct : {<<"1", "0", "1">>},
          s1 : Slot1Cells \cup {<<<<"X">>, <<"0">>>>},
          s2 : Slot2Cells \cup {<<<<"Y">>, <<"0">>>>}] :
     r.s1 = <<<<"X">>, <<"0">>>> \/ r.s2 = <<<<"Y">>, <<"0">>>>}

ZeroLists == UNION {[1..n -> ZeroRowSet] : n \in 1..MaxRows}

Init ==
  /\ script \in Scripts
  /\ \/ /\ cols \in {FixedCols \cup v : v \in SUBSET VarCols}
        /\ rows = SampleRows
     \/ /\ cols = DataCols
        /\ rows \in RowLists \cup ZeroLists
  /\ pc = "start"
  /\ err = ""
  /\ mapped = <<>>
  /\ missing = <<>>
  /\ pairs = <<>>
  /\ table = <<>>
  /\ summary = <<>>
  /\ master = <<>>

\* Ha.py: every field is looked up, then all the unresolved ones are reported.
\* He.py, New.py: the same with an explicit missing list.
ResolveAll ==
  /\ pc = "start"
  /\ script \in {"Ha", "He", "New"}
  /\ LET miss == missing_from(column_map(script), cols, 1)
     IN  IF miss # <<>>
         THEN /\ pc' = "failed"
              /\ err' = "ValueError: Missing required columns"
              /\ missing' = miss
              /\ mapped' = mapped
         ELSE /\ pc' = "mapped"
              /\ mapped' = mapped_of(script, cols)
              /\ UNCHANGED <<err, missing>>
  /\ UNCHANGED <<script, cols, rows, pairs, table, summary, master>>

\* sep-oct-nov.py process_monthly_data: raises at the first unresolved field.
ResolveFirst ==
  /\ pc = "start"
  /\ script = "Sep"
  /\ LET miss == missing_from(column_map(script), cols, 1)
     IN  IF miss # <<>>
         THEN /\ pc' = "failed"
              /\ err' = "ValueError: Missing required column"
              /\ missing' = <<Head(miss)>>
              /\ mapped' = mapped
         ELSE /\ pc' = "mapped"
              /\ mapped' = mapped_of(script, cols)
              /\ UNCHANGED <<err, missing>>
  /\ UNCHANGED <<script, cols, rows, pairs, table, summary, master>>

(***************************************************************************)
(* Slot discovery                                                          *)
(***************************************************************************)

RECURSIVE pairs_from(_, _)
pairs_from(columns, i) ==
  IF i > NSlots THEN <<>>
  ELSE (IF BrandCol[i] \in columns /\ RxCol[i] \in columns
        THEN << <<BrandCol[i], RxCol[i]>> >> ELSE <<>>)
       \o pairs_from(columns, i + 1)

\* A detector that accepts a slot when either of its columns is present.
RECURSIVE pairs_either_from(_, _)
pairs_either_from(columns, i) ==
  IF i > NSlots THEN <<>>
  ELSE (IF BrandCol[i] \in columns \/ RxCol[i] \in columns
        THEN << <<BrandCol[i], RxCol[i]>> >> ELSE <<>>)
       \o pairs_either_from(columns, i + 1)

brand_cols_either(columns) == pairs_either_from(columns, 1)

\* brand_cols (Ha.py) / existing_pairs (He.py, New.py, sep-oct-nov.py).
brand_cols(columns) == pairs_from(columns, 1)

\* Ha.py: the detection, and the error when it finds no pair.
HaDiscover ==
  /\ pc = "mapped"
  /\ script = "Ha"
  /\ IF brand_cols(cols) = <<>>
     THEN /\ pc' = "failed"
          /\ err' = "ValueError: No brand columns found"
          /\ pairs' = pairs
     ELSE /\ pc' = "slots"
          /\ pairs' = brand_cols(cols)
          /\ err' = err
  /\ UNCHANGED <<script, cols, rows, mapped, missing, table, summary, master>>

\* He.py, New.py, sep-oct-nov.py: an empty list of pairs is no error.
Discover ==
  /\ pc = "mapped"
  /\ script \in {"He", "New", "Sep"}
  /\ pc' = "slots"
  /\ pairs' = brand_cols(cols)
  /\ UNCHANGED <<script, cols, rows, err, mapped, missing, table, summary, master>>

(***************************************************************************)
(* Generic helpers over sequences                                          *)
(***************************************************************************)

Range(q) == {q[i] : i \in 1..Len(q)}

RECURSIVE concat(_)
concat(qq) == IF qq = <<>> THEN <<>> ELSE Head(qq) \o concat(Tail(qq))

RECURSIVE select_mask(_, _)
select_mask(q, keep) ==
  IF q = <<>> THEN <<>>
  ELSE (IF Head(keep) THEN <<Head(q)>> ELSE <<>>) \o select_mask(Tail(q), Tail(keep))

\* The elements of q whose key (keys[i] for q[i]) is k, in order: the rows of
\* one group of a groupby, or of a query on the key columns.
where(q, keys, k) == select_mask(q, [i \in 1..Len(q) |-> keys[i] = k])

RECURSIVE sum_seq(_)
sum_seq(q) == IF q = <<>> THEN 0 ELSE Head(q) + sum_seq(Tail(q))

\* The keys of a groupby(sort=True): the distinct keys, ascending.
RECURSIVE sort_keys(_)
sort_keys(S) ==
  IF S = {} THEN <<>>
  ELSE LET m == CHOOSE k \in S : \A l \in S \ {k} : key_lt(k, l)
       IN  <<m>> \o sort_keys(S \ {m})

\* The distinct keys in order of first appearance (a groupby(sort=False)).
RECURSIVE first_seen(_, _)
first_seen(q, seen) ==
  IF q = <<>> THEN <<>>
  ELSE IF Head(q) \in seen THEN first_seen(Tail(q), seen)
  ELSE <<Head(q)>> \o first_seen(Tail(q), seen \cup {Head(q)})

\* Series.nunique() over strings: the number of distinct values.
RECURSIVE nunique_from(_, _)
nunique_from(q, seen) ==
  IF q = <<>> THEN Cardinality(seen)
  ELSE nunique_from(Tail(q), seen \cup {Head(q)})

\* A count of the values, repeated ones included.
count_all(q) == Len(q)

nunique(q) == nunique_from(q, {})

\* The columns of a table of hierarchy rows.
col_tbm_c(q) == [i \in 1..Len(q) |-> q[i].tbm_c]

col_abm_c(q) == [i \in 1..Len(q) |-> q[i].abm_c]

col_dr(q) == [i \in 1..Len(q) |-> q[i].dr]

col_rx(q) == [i \in 1..Len(q) |-> q[i].rx]

(***************************************************************************)
(* Ha.py: brand records, per-ZBM summary, master brand summary             *)
(***************************************************************************)

\* One row of base_df / df_clean: the hierarchy cells, as stripped strings.
clean_row(r, m) ==
  [zbm_c |-> astype_str_strip(Cell(r, m["ZBM Code"])),
   zbm_n |-> astype_str_strip(Cell(r, m["ZBM Name"])),
   abm_c |-> astype_str_strip(Cell(r, m["ABM Code"])),
   abm_n |-> astype_str_strip(Cell(r, m["ABM Name"])),
   tbm_c |-> astype_str_strip(Cell(r, m["Territory Code"])),
   tbm_n |-> astype_str_strip(Cell(r, m["User: Full Name"])),
   dr    |-> astype_str_strip(Cell(r, m["Account: Customer Code"]))]

base_df(rs, m) == [i \in 1..Len(rs) |-> clean_row(rs[i], m)]

\* rx_val: float(rx) unless the cell prints as "" or "nan"; 0.0 when float() raises.
rx_val(rx) ==
  IF strip(str(rx)) \in {<<>>, <<"n", "a", "n">>} THEN 0
  ELSE IF float_ok(rx) THEN float_val(rx) ELSE 0

\* The body of the inner loop: the records (none or one) of row r and pair p.
brand_record(r, m, p) ==
  LET brand == strip(str(Cell(r, p[1])))
      rx    == rx_val(Cell(r, p[2]))
      b     == clean_row(r, m)
  IN  IF brand # <<>> \/ rx # 0
      THEN << [zbm_c |-> b.zbm_c, zbm_n |-> b.zbm_n, abm_c |-> b.abm_c,
               abm_n |-> b.abm_n, tbm_c |-> b.tbm_c, tbm_n |-> b.tbm_n,
               dr |-> b.dr, brand |-> brand, rx |-> rx] >>
      ELSE <<>>

\* brand_records: rows in table order, pairs in slot order.
brand_records(rs, m, ps) ==
  concat([i \in 1..Len(rs) |->
            concat([j \in 1..Len(ps) |-> brand_record(rs[i], m, ps[j])])])

HaNormalize ==
  /\ pc = "slots"
  /\ script = "Ha"
  /\ pc' = "selected"
  /\ table' = brand_records(rows, mapped, pairs)
  /\ UNCHANGED <<script, cols, rows, err, mapped, missing, pairs, summary, master>>

zbm_key(t) == <<t.zbm_c, t.zbm_n>>

zbm_keys(q) == [i \in 1..Len(q) |-> zbm_key(q[i])]

\* The Summary sheet of one ZBM: counts over the rows of base_df in the group,
\* entries and Rx total over the brand records of the group.
zbm_summary(k, base, recs) ==
  LET grp        == where(base, zbm_keys(base), k)
      zbm_brands == where(recs, zbm_keys(recs), k)
  IN  [key |-> k,
       total_rows |-> Len(grp),
       unique_tbm |-> nunique(col_tbm_c(grp)),
       unique_abm |-> nunique(col_abm_c(grp)),
       unique_doctors |-> nunique(col_dr(grp)),
       brand_entries |-> Len(zbm_brands),
       total_rx |-> sum_seq(col_rx(zbm_brands))]

\* Section 6: one workbook per (ZBM Code, ZBM Name), groups ascending.  An empty
\* brand_df has no columns, and brand_df.query on "ZBM Code" raises.
HaPerZbm ==
  /\ pc = "selected"
  /\ script = "Ha"
  /\ IF table = <<>>
     THEN /\ pc' = "failed"
          /\ err' = "UndefinedVariableError"
          /\ summary' = summary
     ELSE /\ pc' = "summarised"
          /\ err' = err
          /\ summary' =
               LET base == base_df(rows, mapped)
                   keys == sort_keys({zbm_key(base[i]) : i \in 1..Len(base)})
               IN  [g \in 1..Len(keys) |-> zbm_summary(keys[g], base, table)]
  /\ UNCHANGED <<script, cols, rows, mapped, missing, pairs, table, master>>

hier_key(t) == <<t.zbm_c, t.zbm_n, t.abm_c, t.abm_n, t.tbm_c, t.tbm_n>>

hier_keys(q) == [i \in 1..Len(q) |-> hier_key(q[i])]

\* Brand Code's x.notna().sum(): the number of brand codes that are not NA.
count_notna(g) == Cardinality({i \in 1..Len(g) : notna(g[i].brand)})

master_row(k, recs) ==
  LET g == where(recs, hier_keys(recs), k)
  IN  [key |-> k,
       Brands_Handled |-> count_notna(g),
       Total_Rx |-> sum_seq(col_rx(g))]

\* A rollup whose groups come in order of first appearance.
master_summary_unsorted(recs) ==
  LET keys == first_seen(hier_keys(recs), {})
  IN  [g \in 1..Len(keys) |-> master_row(keys[g], recs)]

\* A rollup that reports the largest Rx of a group as its total.
master_summary_max(recs) ==
  LET keys == sort_keys({hier_key(recs[i]) : i \in 1..Len(recs)})
  IN  [g \in 1..Len(keys) |->
         [master_row(keys[g], recs) EXCEPT
            !.Total_Rx = CHOOSE v \in {recs[i].rx : i \in 1..Len(recs)} :
                           /\ \E i \in 1..Len(recs) :
                                hier_key(recs[i]) = keys[g] /\ recs[i].rx = v
                           /\ \A i \in 1..Len(recs) :
                                hier_key(recs[i]) = keys[g] => recs[i].rx <= v]]

\* master_summary: brand_df grouped by the six hierarchy columns, ascending.
master_summary(recs) ==
  LET keys == sort_keys({hier_key(recs[i]) : i \in 1..Len(recs)})
  IN  [g \in 1..Len(keys) |-> master_row(keys[g], recs)]

HaMaster ==
  /\ pc = "summarised"
  /\ script = "Ha"
  /\ pc' = "done"
  /\ master' = master_summary(table)
  /\ UNCHANGED <<script, cols, rows, err, mapped, missing, pairs, table, summary>>

(***************************************************************************)
(* He.py: the highest Rx/Month of each row                                 *)
(***************************************************************************)

\* A float column holds <<v>> for the number v and nan_f for nan (also what a
\* None stored in a float column becomes).
nan_f == <<>>

\* float("-inf"): below every <<v>>, equal to none of them.
NegInf == <<0, 0>>

\* pd.to_numeric(errors="coerce") of one cell.
to_numeric(v) ==
  IF v = NaN THEN nan_f ELSE IF float_ok(v) THEN <<float_val(v)>> ELSE nan_f

\* The first loop of get_highest_brand_rx from pair i: (max_val, top_brand).
RECURSIVE scan_max(_, _, _, _, _)
scan_max(r, ps, i, max_val, top_brand) ==
  IF i > Len(ps) THEN <<max_val, top_brand>>
  ELSE LET val == to_numeric(Cell(r, ps[i][2]))
       IN  IF val # nan_f /\ (max_val = NegInf \/ val[1] > max_val[1])
           THEN scan_max(r, ps, i + 1, val, Cell(r, ps[i][1]))
           ELSE scan_max(r, ps, i + 1, max_val, top_brand)

\* The second loop: the first pair holding (top_brand, max_val), or 0.
winner_slot(r, ps, max_val, top_brand) ==
  IF ~notna(top_brand) THEN 0
  ELSE LET hit(j) == /\ Cell(r, ps[j][1]) = top_brand
                     /\ to_numeric(Cell(r, ps[j][2])) = max_val
       IN  IF \E j \in 1..Len(ps) : hit(j)
           THEN CHOOSE j \in 1..Len(ps) : hit(j) /\ \A k \in 1..j - 1 : ~hit(k)
           ELSE 0

\* get_highest_brand_rx with the other slots' Rx written as 0 instead of None.
get_highest_brand_rx_zero(r, ps) ==
  LET top == scan_max(r, ps, 1, NegInf, None)
      w   == winner_slot(r, ps, top[1], top[2])
  IN  [brand |-> [j \in 1..Len(ps) |-> IF j = w THEN top[2] ELSE None],
       rx    |-> [j \in 1..Len(ps) |-> IF j = w THEN top[1] ELSE <<0>>]]

\* get_highest_brand_rx(row): every brand and Rx column None but the winner's.
get_highest_brand_rx(r, ps) ==
  LET top == scan_max(r, ps, 1, NegInf, None)
      w   == winner_slot(r, ps, top[1], top[2])
  IN  [brand |-> [j \in 1..Len(ps) |-> IF j = w THEN top[2] ELSE None],
       rx    |-> [j \in 1..Len(ps) |-> IF j = w THEN top[1] ELSE nan_f]]

\* One row of df_full: df_clean beside brand_rx_filtered.
he_row(r, m, ps) ==
  LET b == clean_row(r, m)
      w == get_highest_brand_rx(r, ps)
  IN  [zbm_c |-> b.zbm_c, zbm_n |-> b.zbm_n, abm_c |-> b.abm_c, abm_n |-> b.abm_n,
       tbm_c |-> b.tbm_c, tbm_n |-> b.tbm_n, dr |-> b.dr,
       brand |-> w.brand, rx |-> w.rx]

HeApply ==
  /\ pc = "slots"
  /\ script = "He"
  /\ pc' = "selected"
  /\ table' = [i \in 1..Len(rows) |-> he_row(rows[i], mapped, pairs)]
  /\ UNCHANGED <<script, cols, rows, err, mapped, missing, pairs, summary, master>>

\* DataFrame.drop_duplicates(): the first of equal rows is kept.
drop_duplicates(q) == first_seen(q, {})

\* One sheet of the workbook and its line of the Overall Summary.
he_sheet(k, full) ==
  LET group == drop_duplicates(where(full, zbm_keys(full), k))
  IN  [key |-> k,
       sheet |-> group,
       total_rows |-> Len(group),
       unique_tbm |-> nunique(col_tbm_c(group)),
       unique_abm |-> nunique(col_abm_c(group)),
       unique_doctors |-> nunique(col_dr(group))]

HeSummary ==
  /\ pc = "selected"
  /\ script = "He"
  /\ pc' = "done"
  /\ summary' =
       LET keys == sort_keys({zbm_key(table[i]) : i \in 1..Len(table)})
       IN  [g \in 1..Len(keys) |-> he_sheet(keys[g], table)]
  /\ UNCHANGED <<script, cols, rows, err, mapped, missing, pairs, table, master>>

(***************************************************************************)
(* New.py: the highest Rx of each account in each brand column             *)
(***************************************************************************)

\* One row of df_clean with its brand columns (stripped text) and Rx columns
\* (numeric).
new_clean_row(r, m, ps) ==
  LET b == clean_row(r, m)
  IN  [zbm_c |-> b.zbm_c, zbm_n |-> b.zbm_n, abm_c |-> b.abm_c, abm_n |-> b.abm_n,
       tbm_c |-> b.tbm_c, tbm_n |-> b.tbm_n, dr |-> b.dr,
       brand |-> [j \in 1..Len(ps) |-> astype_str_strip(Cell(r, ps[j][1]))],
       rx    |-> [j \in 1..Len(ps) |-> to_numeric(Cell(r, ps[j][2]))]]

\* Series.idxmax() skipping nan: the position of the first largest value, 0
\* when every value is nan.
idxmax(v) ==
  LET ok == {i \in 1..Len(v) : v[i] # nan_f}
      top(i) == \A k \in ok : v[k][1] <= v[i][1]
  IN  IF ok = {} THEN 0
      ELSE CHOOSE i \in ok : top(i) /\ \A k \in ok : top(k) => i <= k

\* The record of one account: the hierarchy of its first row, and per pair the
\* brand and Rx of the row idxmax names (None when the column is all nan).
best_row(group, ps) ==
  LET pick(j) == idxmax([i \in 1..Len(group) |-> group[i].rx[j]])
      f == group[1]
  IN  [zbm_c |-> f.zbm_c, zbm_n |-> f.zbm_n, abm_c |-> f.abm_c, abm_n |-> f.abm_n,
       tbm_c |-> f.tbm_c, tbm_n |-> f.tbm_n, dr |-> f.dr,
       brand |-> [j \in 1..Len(ps) |->
                    IF pick(j) = 0 THEN None ELSE group[pick(j)].brand[j]],
       rx    |-> [j \in 1..Len(ps) |->
                    IF pick(j) = 0 THEN nan_f ELSE group[pick(j)].rx[j]]]

acct_key(t) == <<t.dr>>

acct_keys(q) == [i \in 1..Len(q) |-> acct_key(q[i])]

\* The rows of clean_ that belong to account key k, in table order.
acct_group(clean_, k) == where(clean_, acct_keys(clean_), k)

\* Some account has a brand column whose Rx values are all nan.
all_nan_somewhere(clean_, ps) ==
  \E i \in 1..Len(clean_) : \E j \in 1..Len(ps) :
     \A t \in Range(acct_group(clean_, acct_key(clean_[i]))) : t.rx[j] = nan_f

\* grouped_data: one record per account, accounts ascending.
grouped_data(clean_, ps) ==
  LET keys == sort_keys({acct_key(clean_[i]) : i \in 1..Len(clean_)})
  IN  [g \in 1..Len(keys) |-> best_row(acct_group(clean_, keys[g]), ps)]

\* New.py: group.loc[max_idx, rx_col] with the nan that idxmax gives for an
\* all-nan column raises KeyError (ValueError from idxmax itself on pandas 3).
NewGroup ==
  /\ pc = "slots"
  /\ script = "New"
  /\ LET clean_ == [i \in 1..Len(rows) |-> new_clean_row(rows[i], mapped, pairs)]
     IN  IF all_nan_somewhere(clean_, pairs)
         THEN /\ pc' = "failed"
              /\ err' = "KeyError"
              /\ table' = table
         ELSE /\ pc' = "selected"
              /\ err' = err
              /\ table' = grouped_data(clean_, pairs)
  /\ UNCHANGED <<script, cols, rows, mapped, missing, pairs, summary, master>>

RECURSIVE insert_by_key(_, _)
insert_by_key(q, x) ==
  IF q = <<>> THEN <<x>>
  ELSE IF key_lt(x[1], Head(q)[1]) THEN <<x>> \o q
  ELSE <<Head(q)>> \o insert_by_key(Tail(q), x)

RECURSIVE sort_pairs(_, _)
sort_pairs(q, acc) ==
  IF q = <<>> THEN acc ELSE sort_pairs(Tail(q), insert_by_key(acc, Head(q)))

\* DataFrame.sort_values(by=[...]): ascending by key (keys[i] for q[i]), equal
\* keys in table order.
sort_values(q, keys) ==
  LET s == sort_pairs([i \in 1..Len(q) |-> <<keys[i], q[i]>>], <<>>)
  IN  [i \in 1..Len(s) |-> s[i][2]]

new_sort_key(t) == <<t.zbm_c, t.zbm_n, t.abm_c, t.tbm_c>>

new_sort_keys(q) == [i \in 1..Len(q) |-> new_sort_key(q[i])]

NewSort ==
  /\ pc = "selected"
  /\ script = "New"
  /\ pc' = "sorted"
  /\ table' = sort_values(table, new_sort_keys(table))
  /\ UNCHANGED <<script, cols, rows, err, mapped, missing, pairs, summary, master>>

new_summary_row(k, full) ==
  LET group == where(full, zbm_keys(full), k)
  IN  [key |-> k,
       total_rows |-> Len(group),
       unique_tbm |-> nunique(col_tbm_c(group)),
       unique_abm |-> nunique(col_abm_c(group)),
       unique_doctors |-> nunique(col_dr(group))]

\* The Summary sheet: df_full grouped by (ZBM Code, ZBM Name), sorted by ZBM Code.
NewSummary ==
  /\ pc = "sorted"
  /\ script = "New"
  /\ pc' = "done"
  /\ summary' =
       LET keys == sort_keys({zbm_key(table[i]) : i \in 1..Len(table)})
           data == [g \in 1..Len(keys) |-> new_summary_row(keys[g], table)]
       IN  sort_values(data, [g \in 1..Len(data) |-> <<data[g].key[1]>>])
  /\ UNCHANGED <<script, cols, rows, err, mapped, missing, pairs, table, master>>

(***************************************************************************)
(* sep-oct-nov.py: process_monthly_data on the rows of one month           *)
(***************************************************************************)

sep_clean_row(r, m, ps) ==
  [date     |-> astype_str_strip(Cell(r, m["Date"])),
   division |-> astype_str_strip(Cell(r, m["Division"])),
   tbm_c    |-> astype_str_strip(Cell(r, m["Territory Code"])),
   tbm_n    |-> astype_str_strip(Cell(r, m["User: Full Name"])),
   dr       |-> astype_str_strip(Cell(r, m["Account: Customer Code"])),
   brand    |-> [j \in 1..Len(ps) |-> astype_str_strip(Cell(r, ps[j][1]))],
   rx       |-> [j \in 1..Len(ps) |-> to_numeric(Cell(r, ps[j][2]))]]

sep_best_row(group, ps) ==
  LET pick(j) == idxmax([i \in 1..Len(group) |-> group[i].rx[j]])
      f == group[1]
  IN  [date |-> f.date, division |-> f.division, tbm_c |-> f.tbm_c,
       tbm_n |-> f.tbm_n, dr |-> f.dr,
       brand |-> [j \in 1..Len(ps) |->
                    IF pick(j) = 0 THEN None ELSE group[pick(j)].brand[j]],
       rx    |-> [j \in 1..Len(ps) |->
                    IF pick(j) = 0 THEN nan_f ELSE group[pick(j)].rx[j]]]

sep_grouped_data(clean_, ps) ==
  LET keys == sort_keys({acct_key(clean_[i]) : i \in 1..Len(clean_)})
  IN  [g \in 1..Len(keys) |-> sep_best_row(acct_group(clean_, keys[g]), ps)]

\* On an all-nan column idxmax returns nan (the guarded branch stores None) up
\* to pandas 2 and raises ValueError from pandas 3 on: both outcomes are kept.
SepGroup ==
  /\ pc = "slots"
  /\ script = "Sep"
  /\ LET clean_ == [i \in 1..Len(rows) |-> sep_clean_row(rows[i], mapped, pairs)]
     IN  \E idxmax_raises \in BOOLEAN :
           IF idxmax_raises /\ all_nan_somewhere(clean_, pairs)
           THEN /\ pc' = "failed"
                /\ err' = "ValueError"
                /\ table' = table
           ELSE /\ pc' = "selected"
                /\ err' = err
                /\ table' = sep_grouped_data(clean_, pairs)
  /\ UNCHANGED <<script, cols, rows, mapped, missing, pairs, summary, master>>

sep_sort_key(t) == <<t.division, t.tbm_c, t.tbm_n>>

sep_sort_keys(q) == [i \in 1..Len(q) |-> sep_sort_key(q[i])]

SepSort ==
  /\ pc = "selected"
  /\ script = "Sep"
  /\ pc' = "done"
  /\ table' = sort_values(table, sep_sort_keys(table))
  /\ UNCHANGED <<script, cols, rows, err, mapped, missing, pairs, summary, master>>

(***************************************************************************)
(* Notions the claims are stated in                                        *)
(***************************************************************************)

\* The slot indices whose brand column and Rx column are both in the header.
PresentSlots == {i \in 1..NSlots : BrandCol[i] \in cols /\ RxCol[i] \in cols}

\* A brand cell that is empty after trimming (an empty cell included).
BrandEmpty(c) == c = NaN \/ strip(c) = <<>>

\* The metric of a cell with a parse failure (or an empty cell) read as 0.
MetricOrZero(c) == IF c # NaN /\ float_ok(c) THEN float_val(c) ELSE 0

\* A metric cell that holds text float() rejects.
ParseFails(c) == c # NaN /\ strip(c) # <<>> /\ ~float_ok(c)

\* Row i has an observation in slot j: the slot is present, the brand is not empty.
Obs(i, j) == j \in PresentSlots /\ ~BrandEmpty(Cell(rows[i], BrandCol[j]))

ObsSet == {ij \in (1..Len(rows)) \X (1..NSlots) : Obs(ij[1], ij[2])}

\* The account code of row i, as every script reads it.
AcctOf(i) == astype_str_strip(Cell(rows[i], "Account: Customer Code"))

ZoneOf(i) == <<astype_str_strip(Cell(rows[i], mapped["ZBM Code"])),
               astype_str_strip(Cell(rows[i], mapped["ZBM Name"]))>>

Accounts == {AcctOf(i) : i \in 1..Len(rows)}

\* The largest element of a non-empty set of integers.
MaxOf(S) == CHOOSE v \in S : \A w \in S : w <= v

SchemaResolved == pc \notin {"start"} /\ missing = <<>>

Unresolved == {f \in Fields(script) : \A i \in 1..Len(Options(script, f)) :
                                        Options(script, f)[i] \notin cols}

(***************************************************************************)
(* C1                                                                      *)
(***************************************************************************)

\* C1: Ha.py's row normalization emits a record for a (row, present slot) pair
\* if and only if the slot's brand cell is non-empty after trimming: the number
\* of records equals the number of non-empty brand cells over rows and present
\* slots, and no record carries an empty brand.
C1_EmitIffBrandNonEmpty ==
  (script = "Ha" /\ pc \in {"selected", "summarised", "done"}) =>
     /\ Len(table) = Cardinality(ObsSet)
     /\ \A k \in 1..Len(table) : table[k].brand # <<>>

(***************************************************************************)
(* C2                                                                      *)
(***************************************************************************)

\* All rows of the sheets He.py writes.
HeOutput == concat([g \in 1..Len(summary) |-> summary[g].sheet])

\* The (output row, slot) pairs that carry a brand.
Winners(out) ==
  {kj \in (1..Len(out)) \X (1..Len(pairs)) : out[kj[1]].brand[kj[2]] # None}

\* The largest metric over the observations of account a.
TopMetric(a) ==
  MaxOf({MetricOrZero(Cell(rows[ij[1]], RxCol[ij[2]])) :
           ij \in {o \in ObsSet : AcctOf(o[1]) = a}})

\* The earliest slot in which account a has an observation with its top metric.
TopSlot(a) ==
  CHOOSE j \in 1..NSlots :
    LET top(k) == \E i \in 1..Len(rows) :
                    /\ Obs(i, k) /\ AcctOf(i) = a
                    /\ MetricOrZero(Cell(rows[i], RxCol[k])) = TopMetric(a)
    IN  top(j) /\ \A k \in 1..j - 1 : ~top(k)

\* C2: TopPerAccount (He.py): for every account that has an observation, the
\* output keeps exactly one brand/metric entry over all rows of the account,
\* with the maximum metric, in the earliest slot that holds that maximum.
C2_TopPerAccount ==
  (script = "He" /\ pc = "done") =>
     \A a \in {AcctOf(o[1]) : o \in ObsSet} :
        LET w == {kj \in Winners(HeOutput) : HeOutput[kj[1]].dr = a}
        IN  /\ Cardinality(w) = 1
            /\ \A kj \in w :
                 /\ HeOutput[kj[1]].rx[kj[2]] = <<TopMetric(a)>>
                 /\ pairs[kj[2]] = <<BrandCol[TopSlot(a)], RxCol[TopSlot(a)]>>

(***************************************************************************)
(* C3                                                                      *)
(***************************************************************************)

\* The first row of account a that holds the largest metric of slot j.
BestRowOf(a, j) ==
  LET mine == {i \in 1..Len(rows) : AcctOf(i) = a}
      m(i) == MetricOrZero(Cell(rows[i], RxCol[j]))
  IN  CHOOSE i \in mine :
        /\ \A k \in mine : m(k) <= m(i)
        /\ \A k \in mine : (m(k) = m(i)) => i <= k

\* C3: BestPerAccountPerSlot (New.py, sep-oct-nov.py): the run ends with, for
\* every (account, slot) that has an observation, exactly one output record of
\* the account, whose metric in that slot is the maximum over the account's rows
\* and whose brand is that of the first row holding the maximum.
C3_BestPerAccountPerSlot ==
  (script \in {"New", "Sep"} /\ SchemaResolved /\ pc \in {"done", "failed"}) =>
     \A o \in ObsSet :
        LET a == AcctOf(o[1])
            j == o[2]
            recs == {k \in 1..Len(table) : table[k].dr = a}
            b == BestRowOf(a, j)
            p == CHOOSE q \in 1..Len(pairs) : pairs[q] = <<BrandCol[j], RxCol[j]>>
        IN  /\ Cardinality(recs) = 1
            /\ \A k \in recs :
                 /\ table[k].rx[p] = <<MetricOrZero(Cell(rows[b], RxCol[j]))>>
                 /\ table[k].brand[p] =
                      IF BrandEmpty(Cell(rows[b], BrandCol[j])) THEN <<>>
                      ELSE strip(Cell(rows[b], BrandCol[j]))

(***************************************************************************)
(* C4                                                                      *)
(***************************************************************************)

\* C4: when logical fields are unresolved, schema resolution fails with an
\* error naming exactly the set of all unresolved fields, and nothing has been
\* reshaped or produced.
C4_AllMissingNamed ==
  (pc # "start" /\ Unresolved # {}) =>
     /\ pc = "failed"
     /\ Range(missing) = Unresolved
     /\ table = <<>> /\ summary = <<>> /\ master = <<>> /\ pairs = <<>>

(***************************************************************************)
(* C5                                                                      *)
(***************************************************************************)

\* C5: every resolved logical field is mapped to the first name of its synonym
\* list that is among the column names: the chosen name is present and every
\* name before it in the list is absent; a field is unresolved only when none
\* of its names is present.
C5_FirstSynonymWins ==
  /\ \A f \in DOMAIN mapped :
        LET opts == Options(script, f)
        IN  \E i \in 1..Len(opts) :
               /\ mapped[f] = opts[i]
               /\ opts[i] \in cols
               /\ \A j \in 1..i - 1 : opts[j] \notin cols
  /\ (pc # "start" /\ missing = <<>>) => DOMAIN mapped = Fields(script)
  /\ Range(missing) \subseteq Unresolved

\* A later synonym is present beside the chosen one, and is not chosen.
C5_Witness ==
  /\ script = "He" /\ pc = "mapped"
  /\ "ZBM Code" \notin cols /\ "zbm_code" \in cols /\ "ZBMCode" \in cols
  /\ mapped["ZBM Code"] = "zbm_code"
  /\ mapped["Territory Code"] = "TBM Code"

(***************************************************************************)
(* C6                                                                      *)
(***************************************************************************)

SlotOf(p) == CHOOSE i \in 1..Len(BrandCol) : BrandCol[i] = p[1]

SlotsDetected == pc \in {"slots", "selected", "summarised", "sorted", "done"}

\* C6: slot discovery over indices 1..10 returns exactly the pairs whose brand
\* column and Rx column are both present, in ascending index order; a slot with
\* one column only is left out, and the only error of the step is Ha.py's for
\* an input with no complete pair at all.
C6_SlotDiscovery ==
  /\ SlotsDetected =>
       /\ Len(pairs) = Cardinality(PresentSlots)
       /\ \A k \in 1..Len(pairs) :
            /\ SlotOf(pairs[k]) \in PresentSlots
            /\ pairs[k] = <<BrandCol[SlotOf(pairs[k])], RxCol[SlotOf(pairs[k])]>>
            /\ k > 1 => SlotOf(pairs[k - 1]) < SlotOf(pairs[k])
  /\ (SchemaResolved /\ pc = "failed" /\ table = <<>> /\ err # "KeyError"
        /\ err # "ValueError" /\ err # "UndefinedVariableError") =>
       (script = "Ha" /\ PresentSlots = {} /\ pairs = <<>>)
  /\ (SchemaResolved /\ pc # "mapped" /\ ~SlotsDetected) => pc = "failed"

\* Slots 1 and 3 have one column each, slot 2 is complete: only slot 2 is found.
C6_Witness ==
  /\ pc = "slots"
  /\ BrandCol[1] \in cols /\ RxCol[1] \notin cols /\ BrandCol[3] \in cols
  /\ pairs = << <<BrandCol[2], RxCol[2]>> >>
  /\ err = ""

(***************************************************************************)
(* C7                                                                      *)
(***************************************************************************)

\* The metrics (parse failures as 0) of the observations of row i.
RowMetrics(i) ==
  {MetricOrZero(Cell(rows[i], RxCol[j])) : j \in {k \in PresentSlots : Obs(i, k)}}

\* C7: a metric cell that fails numeric parsing counts as exactly 0.  In Ha.py
\* every observation with such a cell is recorded with metric 0; in He.py a row
\* with such an observation still yields a winner, the largest metric of the
\* row's observations with the failed ones read as 0; no run ends in an error
\* because of it.
C7_ParseFailureIsZero ==
  /\ (script = "Ha" /\ pc \in {"selected", "summarised", "done"}) =>
        \A o \in ObsSet :
           ParseFails(Cell(rows[o[1]], RxCol[o[2]])) =>
              \E k \in 1..Len(table) :
                 /\ table[k].dr = AcctOf(o[1])
                 /\ table[k].brand = strip(Cell(rows[o[1]], BrandCol[o[2]]))
                 /\ table[k].rx = 0
  /\ (script = "He" /\ pc \in {"selected", "done"}) =>
        \A i \in 1..Len(rows) :
           (\E j \in PresentSlots :
               Obs(i, j) /\ ParseFails(Cell(rows[i], RxCol[j]))) =>
              \E p \in 1..Len(pairs) :
                 /\ table[i].brand[p] # None
                 /\ ~BrandEmpty(table[i].brand[p])
                 /\ table[i].rx[p] = <<MaxOf(RowMetrics(i))>>
  /\ (script \in {"Ha", "He"} /\ pc = "failed") =>
        ~\E o \in ObsSet : ParseFails(Cell(rows[o[1]], RxCol[o[2]]))

(***************************************************************************)
(* C8                                                                      *)
(***************************************************************************)

Summarised ==
  \/ script = "Ha" /\ pc \in {"summarised", "done"}
  \/ script \in {"He", "New"} /\ pc = "done"

\* The accounts with a row in zone k.
AcctsInZone(k) == {AcctOf(i) : i \in {n \in 1..Len(rows) : ZoneOf(n) = k}}

\* The accounts whose first row lies in zone k.
AcctsFirstInZone(k) ==
  {AcctOf(i) : i \in {n \in 1..Len(rows) :
                        ZoneOf(n) = k /\ \A q \in 1..n - 1 : AcctOf(q) # AcctOf(n)}}

\* The accounts that put a brand entry into the table of the script, in zone k:
\* a brand record (Ha.py), a row with a winning brand (He.py, New.py).
AcctsObservedInZone(k) ==
  IF script = "Ha"
  THEN {table[n].dr : n \in {q \in 1..Len(table) : zbm_key(table[q]) = k}}
  ELSE {table[n].dr :
          n \in {q \in 1..Len(table) :
                   /\ zbm_key(table[q]) = k
                   /\ \E j \in 1..Len(pairs) : table[q].brand[j] # None}}

HierOf(i) == hier_key(clean_row(rows[i], mapped))

\* The (row, pair) positions for which Ha.py appends a record.
Emitted ==
  {ip \in (1..Len(rows)) \X (1..Len(pairs)) :
     brand_record(rows[ip[1]], mapped, pairs[ip[2]]) # <<>>}

\* The sum of the metrics at the (row, pair) positions of S.
RECURSIVE SumRx(_)
SumRx(S) ==
  IF S = {} THEN 0
  ELSE LET ip == CHOOSE y \in S : TRUE
       IN  rx_val(Cell(rows[ip[1]], pairs[ip[2]][2])) + SumRx(S \ {ip})

Perms == {p \in [1..Len(rows) -> 1..Len(rows)] :
            \A i, k \in 1..Len(rows) : p[i] = p[k] => i = k}

Permuted(p) == [i \in 1..Len(rows) |-> rows[p[i]]]

Ascending(q) == \A g \in 2..Len(q) : key_lt(q[g - 1].key, q[g].key)

\* The table New.py writes for the rows rs.
NewTable(rs) ==
  LET data == grouped_data([i \in 1..Len(rs) |-> new_clean_row(rs[i], mapped, pairs)],
                           pairs)
  IN  sort_values(data, new_sort_keys(data))

\* C10 as stated: no produced table depends on the order of the input rows.
C10_OrderIndependent ==
  /\ (script = "Ha" /\ pc = "done") =>
        \A p \in Perms :
           master_summary(brand_records(Permuted(p), mapped, pairs)) = master
  /\ (script = "New" /\ pc \in {"sorted", "done"}) =>
        \A p \in Perms : NewTable(Permuted(p)) = table

\* C10 amended: the master rollup of Ha.py does not depend on the order of the
\* input rows: for any permutation of the rows it has the same rows with the
\* same values, in strictly ascending order of the group key.  (The per-account
\* table of New.py does depend on it: the earliest row wins a tie, and the
\* hierarchy cells are those of the account's first row.)
C10_MasterOrderIndependent ==
  (script = "Ha" /\ pc = "done") =>
     /\ Ascending(master)
     /\ \A p \in Perms :
          master_summary(brand_records(Permuted(p), mapped, pairs)) = master

\* The rows arrive in descending key order and the rollup lists them ascending.
C10_Witness ==
  /\ script = "Ha" /\ pc = "done"
  /\ Len(rows) = 2 /\ key_lt(HierOf(2), HierOf(1))
  /\ Len(master) = 2
  /\ master[1].key = HierOf(2) /\ master[2].key = HierOf(1)

(***************************************************************************)
(* C11                                                                     *)
(***************************************************************************)

\* Every record He.py produces: the rows of df_full and the rows of the sheets.
HeRecords == table \o HeOutput

\* The slots of record t that carry a brand or a metric.
Carried(t) == {j \in 1..Len(pairs) : t.brand[j] # None \/ t.rx[j] # nan_f}

\* C11: in every TopPerAccount (He.py) output record at most one slot carries a
\* brand and a metric; every other present slot has both its brand and its
\* metric absent (None / nan), never zero and never a copy of the row's cell.
C11_OnlyWinnerCarried ==
  (script = "He" /\ pc \in {"selected", "done"}) =>
     \A k \in 1..Len(HeRecords) :
        /\ Cardinality(Carried(HeRecords[k])) <= 1
        /\ \A j \in Carried(HeRecords[k]) :
              HeRecords[k].brand[j] # None /\ HeRecords[k].rx[j] # nan_f

\* A row with a brand and a metric in both slots: the sheet keeps slot 1 and
\* leaves slot 2 absent.
C11_Witness ==
  /\ script = "He" /\ pc = "done"
  /\ Len(pairs) = 2
  /\ \E i \in 1..Len(rows) : \E k \in 1..Len(HeOutput) :
        /\ Cell(rows[i], BrandCol[1]) = <<"X">> /\ Cell(rows[i], RxCol[1]) = <<"7">>
        /\ Cell(rows[i], BrandCol[2]) = <<"Y">> /\ Cell(rows[i], RxCol[2]) = <<"7">>
        /\ HeOutput[k] = table[i]
        /\ HeOutput[k].brand = <<<<"X">>, None>>
        /\ HeOutput[k].rx = <<<<7>>, nan_f>>

(***************************************************************************)
(* C12                                                                     *)
(***************************************************************************)

\* Every metric cell of row i in the detected pairs parses as a number.
MetricsParse(i) ==
  \A j \in 1..Len(pairs) :
     Cell(rows[i], pairs[j][2]) # NaN /\ float_ok(Cell(rows[i], pairs[j][2]))

\* The metric of row i in pair j.
MetricAt(i, j) == float_val(Cell(rows[i], pairs[j][2]))

\* Row i contends in pair j: its brand cell is not empty.
Contends(i, j) == ~BrandEmpty(Cell(rows[i], pairs[j][1]))

\* The earliest contending pair of row i that holds the largest metric among
\* the row's contending pairs.
RowWinner(i) ==
  CHOOSE j \in 1..Len(pairs) :
    LET top(k) == /\ Contends(i, k)
                  /\ \A l \in 1..Len(pairs) :
                        Contends(i, l) => MetricAt(i, l) <= MetricAt(i, k)
    IN  top(j) /\ \A k \in 1..j - 1 : ~top(k)

\* The first row of account a that contends in pair j with the largest metric
\* among the account's contending rows.
AcctWinner(a, j) ==
  CHOOSE i \in 1..Len(rows) :
    LET top(k) == /\ AcctOf(k) = a /\ Contends(k, j)
                  /\ \A l \in 1..Len(rows) :
                        (AcctOf(l) = a /\ Contends(l, j)) =>
                           MetricAt(l, j) <= MetricAt(k, j)
    IN  top(i) /\ \A k \in 1..i - 1 : ~top(k)

\* C12 for He.py, row by row: only the pairs with a non-empty brand contend; the
\* record carries the earliest contender with the largest metric (a metric of
\* 0 included) and nothing when no pair contends.
C12_TopOfRow ==
  (script = "He" /\ pc \in {"selected", "done"}) =>
     \A i \in 1..Len(rows) :
        MetricsParse(i) =>
           IF \A j \in 1..Len(pairs) : ~Contends(i, j)
           THEN Carried(table[i]) = {}
           ELSE /\ Carried(table[i]) = {RowWinner(i)}
                /\ table[i].brand[RowWinner(i)] =
                      Cell(rows[i], pairs[RowWinner(i)][1])
                /\ table[i].rx[RowWinner(i)] = <<MetricAt(i, RowWinner(i))>>

\* C12 for New.py, pair by pair over the rows of an account: only the rows with
\* a non-empty brand in the pair contend, and the account's record holds the
\* first contender with the largest metric (a metric of 0 included).
C12_BestOfAccount ==
  (script = "New" /\ pc \in {"selected", "sorted", "done"}) =>
     \A k \in 1..Len(table) : \A j \in 1..Len(pairs) :
        LET a == table[k].dr
        IN  (/\ \A i \in 1..Len(rows) : AcctOf(i) = a => MetricsParse(i)
             /\ \E i \in 1..Len(rows) : AcctOf(i) = a /\ Contends(i, j)) =>
               /\ table[k].rx[j] = <<MetricAt(AcctWinner(a, j), j)>>
               /\ table[k].brand[j] =
                     strip(Cell(rows[AcctWinner(a, j)], pairs[j][1]))

\* C12: in top selection a slot whose brand cell is empty never contends,
\* whatever its metric: it cannot win and cannot keep a slot with a non-empty
\* brand from winning; a slot with a non-empty brand and the metric 0 contends
\* and wins when no other contender has a greater metric.
C12_EmptyBrandNeverContends == C12_TopOfRow /\ C12_BestOfAccount

Next ==
  \/ ResolveAll
  \/ ResolveFirst
  \/ HaDiscover
  \/ Discover
  \/ HaNormalize
  \/ HaPerZbm
  \/ HaMaster
  \/ HeApply
  \/ HeSummary
  \/ NewGroup
  \/ NewSort
  \/ NewSummary
  \/ SepGroup
  \/ SepSort

Spec == Init /\ [][Next]_vars
====
